---- MODULE Spec2Model ----
(***************************************************************************)
(* Book-distillation pipeline of insighta: the process trigger (POST), the *)
(* detached background job of the chapters pipeline and of the claims      *)
(* pipeline, the cascade DELETE, and the bounded-concurrency mapper        *)
(* parallelMap.  The document store is the shared state; every awaited     *)
(* store operation or LLM call is one atomic step, and the progress writes *)
(* started from onProgress callbacks that nobody awaits are writes in      *)
(* flight which the store applies at any later moment.                     *)
(***************************************************************************)
EXTENDS Naturals, Integers, FiniteSets, Sequences, Bags, TLC

VARIABLES
  variant,    \* which pipeline the deployed route runs: "chapters" or "claims"
  books,      \* Book collection: book id -> record (exists = FALSE once deleted)
  chapters,   \* Chapter collection
  chunks,     \* Chunk collection
  claims,     \* Claim collection
  ideas,      \* Idea collection
  outputs,    \* FinalOutput collection
  pending,    \* bag of un-awaited progress writes in flight to the store
  req,        \* the POST /process requests
  job,        \* the background job each accepted request started
  del,        \* the DELETE request
  pm,         \* one stand-alone parallelMap call
  get,        \* the GET /output request of a poller
  ck,         \* one chunkText call
  ex,         \* one extractChaptersWithTOC call
  up          \* the upload request

vars == <<variant, books, chapters, chunks, claims, ideas, outputs, pending,
          req, job, del, pm, get, ck, ex, up>>

storeVars == <<books, chapters, chunks, claims, ideas, outputs, pending>>

(***************************************************************************)
(* Bounds of the model and constants of the program                        *)
(***************************************************************************)
NChapters == 1          \* chapters each book of the chapters pipeline has
NChunks == 1            \* chunks each book of the claims pipeline has
MaxPending == 1         \* un-awaited progress writes held in flight at once
MaxItems == 4           \* longest item list of the stand-alone parallelMap call
MaxConcurrency == 3     \* largest concurrency option of the stand-alone call

CONCURRENCY_CHAPTERS == 3
CONCURRENCY_CHUNKS == 5
CONCURRENCY_BATCHES == 5
CONCURRENCY_IDEAS == 5

BookIds == {"b1", "b2"}
Target == "b1"          \* the book the trigger requests are sent for
Reqs == {"r1", "r2"}
NoError == "none"
NoStep == "none"

Min(a, b) == IF a <= b THEN a ELSE b

\* Math.round(num / den) for non-negative operands
Round(num, den) == (2 * num + den) \div (2 * den)

(***************************************************************************)
(* The store                                                               *)
(***************************************************************************)
Absent ==
  [exists |-> FALSE, status |-> "none", progress |-> 0, error |-> NoError,
   startedAt |-> FALSE, completedAt |-> FALSE, currentStep |-> NoStep]

\* Book.create({... status: "uploaded"}) with the schema defaults
NewBook ==
  [exists |-> TRUE, status |-> "uploaded", progress |-> 0, error |-> NoError,
   startedAt |-> FALSE, completedAt |-> FALSE, currentStep |-> NoStep]

\* Book.findByIdAndUpdate(b, fields): no upsert, a no-op when b is gone
FindByIdAndUpdateUpsert(bs, b, fields) ==
  [bs EXCEPT ![b] = fields @@ [exists |-> TRUE] @@ bs[b]]

FindByIdAndUpdate(bs, b, fields) ==
  IF bs[b].exists THEN [bs EXCEPT ![b] = fields @@ bs[b]] ELSE bs

\* status.replace(/_/g, " ")
StepOf(status) ==
  CASE status = "compressing_chapters" -> "compressing chapters"
    [] status = "extracting_claims" -> "extracting claims"
    [] status = "filtering_claims" -> "filtering claims"
    [] status = "clustering_ideas" -> "clustering ideas"
    [] OTHER -> status

updateBookStatus(bs, b, status, progress) ==
  FindByIdAndUpdate(bs, b,
    [status |-> status, progress |-> progress, currentStep |-> StepOf(status)])

\* updateBookProgress, called from an onProgress callback that is not
\* awaited: the write is in flight (applied at once when MaxPending writes
\* are already in flight)
IssueProgress(st, b, progress) ==
  IF BagCardinality(st.pending) < MaxPending
  THEN [st EXCEPT !.pending = @ (+) SetToBag({[bookId |-> b, progress |-> progress]})]
  ELSE [st EXCEPT !.books = FindByIdAndUpdate(@, b, [progress |-> progress])]

\* the store applies one progress write that was in flight
ApplyProgress(w) ==
  /\ BagIn(w, pending)
  /\ pending' = pending (-) SetToBag({w})
  /\ books' = FindByIdAndUpdate(books, w.bookId, [progress |-> w.progress])
  /\ UNCHANGED <<variant, chapters, chunks, claims, ideas, outputs, req, job, del, pm, get, ck, ex, up>>

ChaptersOf(b) == {c \in chapters : c.bookId = b}
ChunksOf(b) == {c \in chunks : c.bookId = b}
ClaimsOf(b) == {c \in claims : c.bookId = b}
IdeasOf(b) == {c \in ideas : c.bookId = b}
OutputsOf(b) == {c \in outputs : c.bookId = b}

(***************************************************************************)
(* POST /book/{id}/process                                                 *)
(***************************************************************************)
\* the requests arrive in the order r1, r2; in the claims specification the
\* second one is a retry, sent once the first request and its job have ended
\* and no write of theirs is in flight any more
Earlier(q, r) == q = "r1" /\ r = "r2"

IdleReq == [pc |-> "idle", snap |-> Absent, resp |-> 0]

IdleJob ==
  [pc |-> "none", err |-> NoError, n |-> 0, cursor |-> 0, inflight |-> {},
   completed |-> 0, failed |-> FALSE, got |-> {}, found |-> {}, evals |-> {},
   keptCount |-> 0, discardedCount |-> 0]

\* if (book.status !== "uploaded" && book.status !== "failed") -> 400
TriggerAllowedOnlyUploaded(status) == status = "uploaded"

TriggerAllowed(status) == status \in {"uploaded", "failed"}

\* findOne, the status check, and the synchronous start of
\* processBookInBackground (which runs up to its first await)
PostCheck(r) ==
  /\ req[r].pc = "idle"
  /\ \A q \in Reqs : Earlier(q, r) =>
        /\ req[q].pc # "idle"
        /\ variant = "claims" =>
              /\ req[q].pc = "done" /\ job[q].pc \in {"none", "done"}
              /\ pending = EmptyBag
  /\ LET book == books[Target] IN
       IF ~book.exists THEN
         /\ req' = [req EXCEPT ![r] = [@ EXCEPT !.pc = "done", !.resp = 404]]
         /\ job' = job
       ELSE IF ~TriggerAllowed(book.status) THEN
         /\ req' = [req EXCEPT ![r] = [@ EXCEPT !.pc = "done", !.resp = 400]]
         /\ job' = job
       ELSE
         /\ req' = [req EXCEPT ![r] = [pc |-> "saving", snap |-> book, resp |-> 0]]
         /\ job' = [job EXCEPT ![r] = [IdleJob EXCEPT !.pc = "start"]]
  /\ UNCHANGED <<storeVars, variant, del, pm, get, ck, ex, up>>

\* the paths book.save() writes: those whose value differs from the loaded one
SaveChapters(book, snap) ==
  [book EXCEPT !.status = "compressing_chapters",
               !.progress = IF snap.progress # 0 THEN 0 ELSE @,
               !.error = IF snap.error # NoError THEN NoError ELSE @,
               !.startedAt = TRUE,
               !.completedAt = IF snap.completedAt THEN FALSE ELSE @]

SaveClaims(book, snap) ==
  [book EXCEPT !.status = "extracting_claims",
               !.progress = IF snap.progress # 0 THEN 0 ELSE @,
               !.error = IF snap.error # NoError THEN NoError ELSE @]

\* await book.save(): DocumentNotFoundError (-> 500) when the book is gone
PostSave(r) ==
  /\ req[r].pc = "saving"
  /\ IF books[Target].exists THEN
       /\ books' = [books EXCEPT ![Target] =
                     IF variant = "chapters" THEN SaveChapters(@, req[r].snap)
                                             ELSE SaveClaims(@, req[r].snap)]
       /\ req' = [req EXCEPT ![r] = [pc |-> "done", snap |-> Absent, resp |-> 200]]
     ELSE
       /\ books' = books
       /\ req' = [req EXCEPT ![r] = [pc |-> "done", snap |-> Absent, resp |-> 500]]
  /\ UNCHANGED <<variant, chapters, chunks, claims, ideas, outputs, pending, job, del, pm, get, ck, ex, up>>

(***************************************************************************)
(* processBookInBackground, chapters pipeline                              *)
(***************************************************************************)
CompressProgress(current, total) == 5 + Round(current * 65, total)
AssembleProgress(current, total) == 75 + Round(current * 20, total)

Throw(j, msg) == [job EXCEPT ![j] = [@ EXCEPT !.pc = "catch", !.err = msg]]
Goto(j, pc) == [job EXCEPT ![j] = [@ EXCEPT !.pc = pc]]

\* await updateBookStatus(bookId, "compressing_chapters", 5)
ChStatusCompressing(j) ==
  /\ variant = "chapters" /\ job[j].pc = "start"
  /\ books' = updateBookStatus(books, Target, "compressing_chapters", 5)
  /\ job' = Goto(j, "c_book")
  /\ UNCHANGED <<variant, chapters, chunks, claims, ideas, outputs, pending, req, del, pm, get, ck, ex, up>>

\* compressChapters: Book.findById
CompressFindBook(j) ==
  /\ job[j].pc = "c_book"
  /\ job' = IF books[Target].exists THEN Goto(j, "c_chapters")
                                    ELSE Throw(j, "Book not found")
  /\ UNCHANGED <<storeVars, variant, req, del, pm, get, ck, ex, up>>

\* the workers parallelMap starts: Math.min(concurrency, items.length)
WorkersAll(concurrency, n) == n

Workers(concurrency, n) == Min(concurrency, n)

\* progress writes the first workers issue, each from the start of fn
RECURSIVE IssueStarts(_, _, _, _)
IssueStarts(st, from, to, n) ==
  IF from > to THEN st
  ELSE IssueStarts(IssueProgress(st, Target, CompressProgress(from, n)), from + 1, to, n)

\* compressChapters: Chapter.find, then parallelMap starts its workers; each
\* runs fn up to the LLM call, after onProgress(.., index + 1, total)
CompressFindChapters(j) ==
  /\ job[j].pc = "c_chapters"
  /\ LET n == Cardinality(ChaptersOf(Target))
         w == Workers(CONCURRENCY_CHAPTERS, n)
         st == IssueStarts([books |-> books, pending |-> pending], 1, w, n)
     IN IF n = 0 THEN
          /\ job' = Throw(j, "No chapters found for this book")
          /\ UNCHANGED <<books, pending>>
        ELSE
          /\ job' = [job EXCEPT ![j] = [@ EXCEPT !.pc = "c_map", !.n = n,
                        !.cursor = w, !.inflight = 0 .. (w - 1), !.completed = 0]]
          /\ books' = st.books
          /\ pending' = st.pending
  /\ UNCHANGED <<variant, chapters, chunks, claims, ideas, outputs, req, del, pm, get, ck, ex, up>>

\* one fn settles: the LLM answered (ok) or failed (caught, null); on ok the
\* Chapter is updated; then completed++, onProgress(completed, total), and
\* the worker takes the next index, whose fn issues its start progress
CompressItemSettle(j, i, ok) ==
  /\ job[j].pc = "c_map" /\ i \in job[j].inflight
  /\ LET jb == job[j]
         done == jb.completed + 1
         more == jb.cursor < jb.n
         st1 == IssueProgress([books |-> books, pending |-> pending], Target,
                              CompressProgress(done, jb.n))
         st2 == IF more THEN IssueProgress(st1, Target, CompressProgress(jb.cursor + 1, jb.n))
                        ELSE st1
         fly == (jb.inflight \ {i}) \cup (IF more THEN {jb.cursor} ELSE {})
     IN /\ chapters' = IF ok
                       THEN {IF c.bookId = Target /\ c.order = i
                               THEN [c EXCEPT !.compressed = TRUE] ELSE c : c \in chapters}
                       ELSE chapters
        /\ books' = st2.books
        /\ pending' = st2.pending
        /\ job' = [job EXCEPT ![j] = [@ EXCEPT
                      !.completed = done,
                      !.cursor = IF more THEN @ + 1 ELSE @,
                      !.inflight = fly,
                      !.pc = IF fly = {} THEN "c_status" ELSE "c_map"]]
  /\ UNCHANGED <<variant, chunks, claims, ideas, outputs, req, del, pm, get, ck, ex, up>>

\* compressChapters: Book.findByIdAndUpdate {status: "assembling", currentStep}
CompressWriteStatus(j) ==
  /\ job[j].pc = "c_status"
  /\ books' = FindByIdAndUpdate(books, Target,
                 [status |-> "assembling", currentStep |-> "Chapters compressed"])
  /\ job' = Goto(j, "assembling")
  /\ UNCHANGED <<variant, chapters, chunks, claims, ideas, outputs, pending, req, del, pm, get, ck, ex, up>>

\* await updateBookStatus(bookId, "assembling", 75)
ChStatusAssembling(j) ==
  /\ job[j].pc = "assembling"
  /\ books' = updateBookStatus(books, Target, "assembling", 75)
  /\ job' = Goto(j, "a_book")
  /\ UNCHANGED <<variant, chapters, chunks, claims, ideas, outputs, pending, req, del, pm, get, ck, ex, up>>

\* assembleBook: Book.findById
AssembleFindBook(j) ==
  /\ job[j].pc = "a_book"
  /\ job' = IF books[Target].exists THEN Goto(j, "a_chapters")
                                    ELSE Throw(j, "Book not found")
  /\ UNCHANGED <<storeVars, variant, req, del, pm, get, ck, ex, up>>

\* assembleBook: Chapter.find compressed ones, onProgress(.., 1, 2), LLM call sent
AssembleFindChapters(j) ==
  /\ job[j].pc = "a_chapters"
  /\ LET found == {c \in ChaptersOf(Target) : c.compressed}
         st == IssueProgress([books |-> books, pending |-> pending], Target,
                             AssembleProgress(1, 2))
     IN IF found = {} THEN
          /\ job' = Throw(j, "No compressed chapters found")
          /\ UNCHANGED <<books, pending>>
        ELSE
          /\ job' = [job EXCEPT ![j] = [@ EXCEPT !.pc = "a_llm", !.n = Cardinality(found)]]
          /\ books' = st.books
          /\ pending' = st.pending
  /\ UNCHANGED <<variant, chapters, chunks, claims, ideas, outputs, req, del, pm, get, ck, ex, up>>

\* assembleBook: generateResponse returns (ok) or throws; onProgress(.., 2, 2)
AssembleLLM(j, ok) ==
  /\ job[j].pc = "a_llm"
  /\ LET st == IssueProgress([books |-> books, pending |-> pending], Target,
                             AssembleProgress(2, 2))
     IN IF ok THEN
          /\ job' = Goto(j, "a_output")
          /\ books' = st.books
          /\ pending' = st.pending
        ELSE
          /\ job' = Throw(j, "LLM error")
          /\ UNCHANGED <<books, pending>>
  /\ UNCHANGED <<variant, chapters, chunks, claims, ideas, outputs, req, del, pm, get, ck, ex, up>>

\* FinalOutput.findOneAndUpdate({bookId}, {$set}, {upsert: true})
UpsertOutput(outs, b, n) ==
  {o \in outs : o.bookId # b} \cup {[bookId |-> b, ideaCount |-> n]}

AssembleSaveOutput(j) ==
  /\ job[j].pc = "a_output"
  /\ outputs' = UpsertOutput(outputs, Target, job[j].n)
  /\ job' = Goto(j, "a_status")
  /\ UNCHANGED <<variant, books, chapters, chunks, claims, ideas, pending, req, del, pm, get, ck, ex, up>>

\* assembleBook: Book.findByIdAndUpdate {status: "completed", progress: 100}
AssembleWriteStatus(j) ==
  /\ job[j].pc = "a_status"
  /\ books' = FindByIdAndUpdate(books, Target,
                 [status |-> "completed", currentStep |-> "Complete", progress |-> 100])
  /\ job' = Goto(j, "final")
  /\ UNCHANGED <<variant, chapters, chunks, claims, ideas, outputs, pending, req, del, pm, get, ck, ex, up>>

\* Done: {status: "completed", progress: 100, processingCompletedAt}
ChDone(j) ==
  /\ variant = "chapters" /\ job[j].pc = "final"
  /\ books' = FindByIdAndUpdate(books, Target,
                 [status |-> "completed", progress |-> 100,
                  currentStep |-> "completed", completedAt |-> TRUE])
  /\ job' = [job EXCEPT ![j] = [IdleJob EXCEPT !.pc = "done"]]
  /\ UNCHANGED <<variant, chapters, chunks, claims, ideas, outputs, pending, req, del, pm, get, ck, ex, up>>

\* catch: {status: "failed", error, processingCompletedAt}; nothing rethrown
ChCatchFields(msg) == [status |-> "failed", error |-> msg, completedAt |-> TRUE]

ChCatch(j) ==
  /\ variant = "chapters" /\ job[j].pc = "catch"
  /\ books' = FindByIdAndUpdate(books, Target, ChCatchFields(job[j].err))
  /\ job' = [job EXCEPT ![j] = [IdleJob EXCEPT !.pc = "done", !.failed = TRUE, !.err = job[j].err]]
  /\ UNCHANGED <<variant, chapters, chunks, claims, ideas, outputs, pending, req, del, pm, get, ck, ex, up>>

(***************************************************************************)
(* processBookInBackground, claims pipeline                                *)
(***************************************************************************)
BATCH_SIZE == 20
MaxIdeas == 2           \* most clusters the clustering call returns

ExtractProgress(current, total) == 5 + Round(current * 15, total)
FilterProgress(current, total) == 20 + Round(current * 20, total)
ClusterProgress(current, total) == 40 + Round(current * 30, total)

KeptLabels == {"core_insight", "supporting_insight"}

\* the state of a parallelMap call inside a job, right after its workers started
StartMap(jb, pc, n, concurrency) ==
  [jb EXCEPT !.pc = pc, !.n = n, !.cursor = Workers(concurrency, n),
             !.inflight = 0 .. (Workers(concurrency, n) - 1),
             !.completed = 0, !.got = {}]

\* one fn of that call settles, returning a value (ok) or null; the worker
\* takes the next index; the call resolves (pc = after) with the last one
SettleMap(jb, i, ok, after) ==
  LET more == jb.cursor < jb.n
      fly == (jb.inflight \ {i}) \cup (IF more THEN {jb.cursor} ELSE {})
  IN [jb EXCEPT !.completed = @ + 1,
                !.cursor = IF more THEN @ + 1 ELSE @,
                !.inflight = fly,
                !.got = IF ok THEN @ \cup {i} ELSE @,
                !.pc = IF fly = {} THEN after ELSE @]

\* await updateBookStatus(bookId, "extracting_claims", 5)
ClStatusExtracting(j) ==
  /\ variant = "claims" /\ job[j].pc = "start"
  /\ books' = updateBookStatus(books, Target, "extracting_claims", 5)
  /\ job' = Goto(j, "e_chunks")
  /\ UNCHANGED <<variant, chapters, chunks, claims, ideas, outputs, pending, req, del, pm, get, ck, ex, up>>

\* extractClaims: Chunk.find, then parallelMap starts its workers
ExtractFindChunks(j) ==
  /\ job[j].pc = "e_chunks"
  /\ LET n == Cardinality(ChunksOf(Target)) IN
       job' = IF n = 0 THEN Throw(j, "No chunks found for this book")
              ELSE [job EXCEPT ![j] = StartMap(@, "e_map", n, CONCURRENCY_CHUNKS)]
  /\ UNCHANGED <<storeVars, variant, req, del, pm, get, ck, ex, up>>

\* the LLM call of one chunk settles: claims (ok) or null; completed++ and
\* the orchestrator's onProgress issues a progress write
ExtractItemSettle(j, i, ok) ==
  /\ job[j].pc = "e_map" /\ i \in job[j].inflight
  /\ LET st == IssueProgress([books |-> books, pending |-> pending], Target,
                             ExtractProgress(job[j].completed + 1, job[j].n))
     IN /\ books' = st.books
        /\ pending' = st.pending
  /\ job' = [job EXCEPT ![j] = SettleMap(@, i, ok, "e_insert")]
  /\ UNCHANGED <<variant, chapters, chunks, claims, ideas, outputs, req, del, pm, get, ck, ex, up>>

\* Claim.insertMany(allClaimDocs): one claim per chunk that returned claims
ExtractInsert(j) ==
  /\ job[j].pc = "e_insert"
  /\ claims' = claims \cup {[bookId |-> Target, run |-> j, chunk |-> i, text |-> i,
                              label |-> "none"] : i \in job[j].got}
  /\ job' = Goto(j, "e_step")
  /\ UNCHANGED <<variant, books, chapters, chunks, ideas, outputs, pending, req, del, pm, get, ck, ex, up>>

\* extractClaims: Book.findByIdAndUpdate {currentStep: "Claims extracted"}
ExtractWriteStep(j) ==
  /\ job[j].pc = "e_step"
  /\ books' = FindByIdAndUpdate(books, Target, [currentStep |-> "Claims extracted"])
  /\ job' = Goto(j, "filtering")
  /\ UNCHANGED <<variant, chapters, chunks, claims, ideas, outputs, pending, req, del, pm, get, ck, ex, up>>

\* await updateBookStatus(bookId, "filtering_claims", 20)
ClStatusFiltering(j) ==
  /\ job[j].pc = "filtering"
  /\ books' = updateBookStatus(books, Target, "filtering_claims", 20)
  /\ job' = Goto(j, "f_find")
  /\ UNCHANGED <<variant, chapters, chunks, claims, ideas, outputs, pending, req, del, pm, get, ck, ex, up>>

UnfilteredAll(b) == ClaimsOf(b)

\* Claim.find({bookId, label: {$exists: false}})
Unfiltered(b) == {c \in ClaimsOf(b) : c.label = "none"}

\* the order find returns the claims in: insertion order
ClaimBefore(c, d) ==
  \/ Earlier(c.run, d.run)
  \/ c.run = d.run /\ c.chunk < d.chunk

\* the batches of BATCH_SIZE: batch i holds the claims at positions
\* i * BATCH_SIZE .. i * BATCH_SIZE + BATCH_SIZE - 1 of the claims found
Position(c, found) == Cardinality({d \in found : ClaimBefore(d, c)})
Batch(i, found) == {c \in found : Position(c, found) \div BATCH_SIZE = i}

\* filterClaims: the claims found, or an early return when there are none
FilterFind(j) ==
  /\ job[j].pc = "f_find"
  /\ LET found == Unfiltered(Target)
         n == (Cardinality(found) + BATCH_SIZE - 1) \div BATCH_SIZE
     IN job' = IF found = {} THEN Goto(j, "g_filtered")
               ELSE [job EXCEPT ![j] =
                       [StartMap(@, "f_map", n, CONCURRENCY_BATCHES) EXCEPT !.found = found]]
  /\ UNCHANGED <<storeVars, variant, req, del, pm, get, ck, ex, up>>

\* batch.find((c) => c.text === evaluation.claim): the first claim of the
\* batch with that text
Matched(batch, text) ==
  {c \in batch : c.text = text /\ \A d \in batch : d.text = text => ~ClaimBefore(d, c)}

\* the evaluations of one batch, one for each claim text sent (the one that
\* answers the text of claim c is "of" c), mapped back to claims; kept is the
\* set of texts the model labels core_insight
Evaluations(batch, kept) ==
  UNION {{[of |-> <<c.run, c.chunk>>, run |-> m.run, chunk |-> m.chunk,
           label |-> IF c.text \in kept THEN "core_insight" ELSE "filler"] :
            m \in Matched(batch, c.text)} : c \in batch}

\* keptCount++ for an evaluation labeled core_insight or supporting_insight
CountsAsKept(label) == label \in KeptLabels

\* the LLM call of one batch settles: evaluations, or null after an error
FilterBatchSettle(j, i, ok, kept) ==
  /\ job[j].pc = "f_map" /\ i \in job[j].inflight
  /\ kept \subseteq {c.text : c \in Batch(i, job[j].found)}
  /\ ok \/ kept = {}
  /\ LET st == IssueProgress([books |-> books, pending |-> pending], Target,
                             FilterProgress(job[j].completed + 1, job[j].n))
     IN /\ books' = st.books
        /\ pending' = st.pending
  /\ job' = [job EXCEPT ![j] =
               [SettleMap(@, i, ok, "f_update") EXCEPT
                  !.evals = IF ok THEN @ \cup Evaluations(Batch(i, job[j].found), kept)
                                  ELSE @]]
  /\ UNCHANGED <<variant, chapters, chunks, claims, ideas, outputs, req, del, pm, get, ck, ex, up>>

\* Promise.all(updates.map(Claim.updateOne({_id}, {$set: {label, ...}})))
FilterUpdate(j) ==
  /\ job[j].pc = "f_update"
  /\ claims' = {IF \E e \in job[j].evals : e.run = c.run /\ e.chunk = c.chunk
                  THEN [c EXCEPT !.label =
                          (CHOOSE e \in job[j].evals : e.run = c.run /\ e.chunk = c.chunk).label]
                  ELSE c : c \in claims}
  /\ job' = [job EXCEPT ![j] = [@ EXCEPT
                !.pc = "f_step", !.found = {}, !.evals = {},
                !.keptCount = Cardinality({e \in job[j].evals : CountsAsKept(e.label)}),
                !.discardedCount = Cardinality({e \in job[j].evals : ~CountsAsKept(e.label)})]]
  /\ UNCHANGED <<variant, books, chapters, chunks, ideas, outputs, pending, req, del, pm, get, ck, ex, up>>

\* filterClaims: Book.findByIdAndUpdate {currentStep: "Claims filtered"}
FilterWriteStep(j) ==
  /\ job[j].pc = "f_step"
  /\ books' = FindByIdAndUpdate(books, Target, [currentStep |-> "Claims filtered"])
  /\ job' = Goto(j, "g_filtered")
  /\ UNCHANGED <<variant, chapters, chunks, claims, ideas, outputs, pending, req, del, pm, get, ck, ex, up>>

\* Claim.find({bookId, label: {$in: [core_insight, supporting_insight]}})
getFilteredClaims(b) == {c \in ClaimsOf(b) : c.label \in KeptLabels}

NoValuableClaims == "No valuable claims found in this book"

\* getFilteredClaims and the orchestrator's check that some claim is left
GetFiltered(j) ==
  /\ job[j].pc = "g_filtered"
  /\ job' = IF getFilteredClaims(Target) = {} THEN Throw(j, NoValuableClaims)
                                              ELSE Goto(j, "clustering")
  /\ UNCHANGED <<storeVars, variant, req, del, pm, get, ck, ex, up>>

\* await updateBookStatus(bookId, "clustering_ideas", 40); clusterIdeas then
\* calls onProgress("Clustering claims", 1, 3) and sends the clustering call
ClStatusClustering(j) ==
  /\ job[j].pc = "clustering"
  /\ LET st == IssueProgress([books |-> updateBookStatus(books, Target, "clustering_ideas", 40),
                              pending |-> pending], Target, ClusterProgress(1, 3))
     IN /\ books' = st.books
        /\ pending' = st.pending
  /\ job' = Goto(j, "k_llm")
  /\ UNCHANGED <<variant, chapters, chunks, claims, ideas, outputs, req, del, pm, get, ck, ex, up>>

\* the clustering call returns k idea clusters, or throws; then
\* onProgress("Expanding ideas", 2, 3) and parallelMap over the clusters
ClusterLLM(j, ok, k) ==
  /\ job[j].pc = "k_llm"
  /\ ok \/ k = 0
  /\ IF ok /\ k > 0 THEN
       /\ LET st == IssueProgress([books |-> books, pending |-> pending], Target,
                                  ClusterProgress(2, 3))
          IN /\ books' = st.books
             /\ pending' = st.pending
       /\ job' = [job EXCEPT ![j] = StartMap(@, "x_map", k, CONCURRENCY_IDEAS)]
     ELSE
       /\ job' = Throw(j, IF ok THEN "No ideas generated from clustering" ELSE "LLM error")
       /\ UNCHANGED <<books, pending>>
  /\ UNCHANGED <<variant, chapters, chunks, claims, ideas, outputs, req, del, pm, get, ck, ex, up>>

\* the expansion call of one cluster settles: an expansion (ok) or null;
\* after the last one onProgress("Saving ideas", 3, 3)
ExpandSettle(j, i, ok) ==
  /\ job[j].pc = "x_map" /\ i \in job[j].inflight
  /\ job' = [job EXCEPT ![j] = SettleMap(@, i, ok, "i_delete")]
  /\ LET st == IssueProgress([books |-> books, pending |-> pending], Target,
                             ClusterProgress(3, 3))
     IN IF job'[j].pc = "i_delete"
        THEN books' = st.books /\ pending' = st.pending
        ELSE UNCHANGED <<books, pending>>
  /\ UNCHANGED <<variant, chapters, chunks, claims, ideas, outputs, req, del, pm, get, ck, ex, up>>

\* await Idea.deleteMany({bookId})
IdeasDelete(j) ==
  /\ job[j].pc = "i_delete"
  /\ ideas' = {c \in ideas : c.bookId # Target}
  /\ job' = Goto(j, "i_insert")
  /\ UNCHANGED <<variant, books, chapters, chunks, claims, outputs, pending, req, del, pm, get, ck, ex, up>>

\* Idea.insertMany(ideaDocs): the successful expansions, order = cluster index
IdeasInsert(j) ==
  /\ job[j].pc = "i_insert"
  /\ ideas' = ideas \cup {[bookId |-> Target, run |-> j, order |-> i] : i \in job[j].got}
  /\ job' = Goto(j, "i_step")
  /\ UNCHANGED <<variant, books, chapters, chunks, claims, outputs, pending, req, del, pm, get, ck, ex, up>>

\* clusterIdeas: Book.findByIdAndUpdate {currentStep: "Ideas clustered"}
IdeasWriteStep(j) ==
  /\ job[j].pc = "i_step"
  /\ books' = FindByIdAndUpdate(books, Target, [currentStep |-> "Ideas clustered"])
  /\ job' = Goto(j, "reconstructing")
  /\ UNCHANGED <<variant, chapters, chunks, claims, ideas, outputs, pending, req, del, pm, get, ck, ex, up>>

\* await updateBookStatus(bookId, "reconstructing", 70)
ClStatusReconstructing(j) ==
  /\ job[j].pc = "reconstructing"
  /\ books' = updateBookStatus(books, Target, "reconstructing", 70)
  /\ job' = Goto(j, "r_book")
  /\ UNCHANGED <<variant, chapters, chunks, claims, ideas, outputs, pending, req, del, pm, get, ck, ex, up>>

\* reconstructBook: Book.findById
ReconFindBook(j) ==
  /\ job[j].pc = "r_book"
  /\ job' = IF books[Target].exists THEN Goto(j, "r_ideas")
                                    ELSE Throw(j, "Book not found")
  /\ UNCHANGED <<storeVars, variant, req, del, pm, get, ck, ex, up>>

\* reconstructBook: Idea.find, onProgress("Generating final output") -> 85
ReconFindIdeas(j) ==
  /\ job[j].pc = "r_ideas"
  /\ LET n == Cardinality(IdeasOf(Target))
         st == IssueProgress([books |-> books, pending |-> pending], Target, 85)
     IN IF n = 0 THEN
          /\ job' = Throw(j, "No ideas found for this book")
          /\ UNCHANGED <<books, pending>>
        ELSE
          /\ job' = [job EXCEPT ![j] = [@ EXCEPT !.pc = "r_llm", !.n = n]]
          /\ books' = st.books
          /\ pending' = st.pending
  /\ UNCHANGED <<variant, chapters, chunks, claims, ideas, outputs, req, del, pm, get, ck, ex, up>>

\* generateResponse returns or throws; onProgress("Saving output") -> 95
ReconLLM(j, ok) ==
  /\ job[j].pc = "r_llm"
  /\ LET st == IssueProgress([books |-> books, pending |-> pending], Target, 95)
     IN IF ok THEN
          /\ job' = Goto(j, "r_delete")
          /\ books' = st.books
          /\ pending' = st.pending
        ELSE
          /\ job' = Throw(j, "LLM error")
          /\ UNCHANGED <<books, pending>>
  /\ UNCHANGED <<variant, chapters, chunks, claims, ideas, outputs, req, del, pm, get, ck, ex, up>>

\* await FinalOutput.deleteOne({bookId})
ReconDeleteOutput(j) ==
  /\ job[j].pc = "r_delete"
  /\ outputs' = {o \in outputs : o.bookId # Target}
  /\ job' = Goto(j, "r_create")
  /\ UNCHANGED <<variant, books, chapters, chunks, claims, ideas, pending, req, del, pm, get, ck, ex, up>>

\* await FinalOutput.create(...): bookId is unique, a duplicate key throws
ReconCreateOutput(j) ==
  /\ job[j].pc = "r_create"
  /\ IF OutputsOf(Target) = {} THEN
       /\ outputs' = outputs \cup {[bookId |-> Target, ideaCount |-> job[j].n]}
       /\ job' = Goto(j, "r_status")
     ELSE
       /\ outputs' = outputs
       /\ job' = Throw(j, "E11000 duplicate key")
  /\ UNCHANGED <<variant, books, chapters, chunks, claims, ideas, pending, req, del, pm, get, ck, ex, up>>

\* reconstructBook: Book.findByIdAndUpdate {status: "completed", progress: 100}
ReconWriteStatus(j) ==
  /\ job[j].pc = "r_status"
  /\ books' = FindByIdAndUpdate(books, Target,
                 [status |-> "completed", progress |-> 100, currentStep |-> "Completed"])
  /\ job' = Goto(j, "final")
  /\ UNCHANGED <<variant, chapters, chunks, claims, ideas, outputs, pending, req, del, pm, get, ck, ex, up>>

\* Done: await updateBookStatus(bookId, "completed", 100)
ClDone(j) ==
  /\ variant = "claims" /\ job[j].pc = "final"
  /\ books' = updateBookStatus(books, Target, "completed", 100)
  /\ job' = [job EXCEPT ![j] = [IdleJob EXCEPT !.pc = "done"]]
  /\ UNCHANGED <<variant, chapters, chunks, claims, ideas, outputs, pending, req, del, pm, get, ck, ex, up>>

\* catch: {status: "failed", error}; nothing is rethrown
ClCatchFields(msg) == [status |-> "failed", error |-> msg]

ClCatch(j) ==
  /\ variant = "claims" /\ job[j].pc = "catch"
  /\ books' = FindByIdAndUpdate(books, Target, ClCatchFields(job[j].err))
  /\ job' = [job EXCEPT ![j] = [IdleJob EXCEPT !.pc = "done", !.failed = TRUE, !.err = job[j].err]]
  /\ UNCHANGED <<variant, chapters, chunks, claims, ideas, outputs, pending, req, del, pm, get, ck, ex, up>>

(***************************************************************************)
(* DELETE /book/{id}                                                       *)
(***************************************************************************)
IdleDel == [pc |-> "idle", resp |-> 0]

\* the collections of the Promise.all of deleteMany({bookId: id})
CascadeWithChapters == {"Chunk", "Claim", "Idea", "FinalOutput", "Chapter"}

Cascade == {"Chunk", "Claim", "Idea", "FinalOutput"}

\* Book.findOneAndDelete; 404 when there is no such book
DeleteBook ==
  /\ del.pc = "idle"
  /\ IF books[Target].exists THEN
       /\ books' = [books EXCEPT ![Target] = Absent]
       /\ del' = [pc |-> "children", resp |-> 0]
     ELSE
       /\ books' = books
       /\ del' = [pc |-> "done", resp |-> 404]
  /\ UNCHANGED <<variant, chapters, chunks, claims, ideas, outputs, pending, req, job, pm, get, ck, ex, up>>

DeleteMany(coll, name, b) ==
  IF name \in Cascade THEN {c \in coll : c.bookId # b} ELSE coll

\* await Promise.all([...deleteMany({bookId: id})]), then the 200 response
DeleteChildren ==
  /\ del.pc = "children"
  /\ chunks' = DeleteMany(chunks, "Chunk", Target)
  /\ claims' = DeleteMany(claims, "Claim", Target)
  /\ ideas' = DeleteMany(ideas, "Idea", Target)
  /\ outputs' = DeleteMany(outputs, "FinalOutput", Target)
  /\ chapters' = DeleteMany(chapters, "Chapter", Target)
  /\ del' = [pc |-> "done", resp |-> 200]
  /\ UNCHANGED <<variant, books, pending, req, job, pm, get, ck, ex, up>>

(***************************************************************************)
(* Specification of the pipeline                                           *)
(***************************************************************************)
(***************************************************************************)
(* GET /book/{id}/output                                                   *)
(***************************************************************************)
IdleGet == [pc |-> "idle", resp |-> 0]

\* Book.findOne({_id: id, userId}); 404 "Book not found"
GetFindBook ==
  /\ get.pc \in {"idle", "done"}
  /\ get' = IF books[Target].exists THEN [pc |-> "output", resp |-> 0]
                                    ELSE [pc |-> "done", resp |-> 404]
  /\ UNCHANGED <<storeVars, variant, req, job, del, pm, ck, ex, up>>

\* FinalOutput.findOne({bookId: id}); 404 "Output not available yet", else
\* 200 with the output; the handler looks at no status
GetFindOutput ==
  /\ get.pc = "output"
  /\ get' = IF OutputsOf(Target) # {}
            THEN [pc |-> "done", resp |-> 200]
            ELSE [pc |-> "done", resp |-> 404]
  /\ UNCHANGED <<storeVars, variant, req, job, del, pm, ck, ex, up>>

IdlePM == [phase |-> "idle"]

IdleCk == [phase |-> "idle"]

IdleEx == [phase |-> "idle"]

IdleUp == [pc |-> "idle"]

\* upload: Book.create "uploaded" and insertMany of its Chapters (chapters
\* pipeline) or Chunks (claims pipeline), order 0 .. n-1
InitStore(v) ==
  /\ variant = v
  /\ books = [b \in BookIds |-> NewBook]
  /\ chapters = IF variant = "chapters"
                THEN {[bookId |-> b, order |-> i, compressed |-> FALSE] :
                        b \in BookIds, i \in 0 .. (NChapters - 1)}
                ELSE {}
  /\ chunks = IF variant = "claims"
              THEN {[bookId |-> b, order |-> i] : b \in BookIds, i \in 0 .. (NChunks - 1)}
              ELSE {}
  /\ claims = {}
  /\ ideas = {}
  /\ outputs = {}
  /\ pending = EmptyBag
  /\ req = [r \in Reqs |-> IdleReq]
  /\ job = [r \in Reqs |-> IdleJob]
  /\ del = IdleDel
  /\ get = IdleGet

Init ==
  /\ InitStore("chapters") /\ pm = IdlePM /\ ck = IdleCk
  /\ ex = IdleEx /\ up = IdleUp

InitClaims ==
  /\ InitStore("claims") /\ pm = IdlePM /\ ck = IdleCk
  /\ ex = IdleEx /\ up = IdleUp

Requests ==
  \/ \E r \in Reqs : PostCheck(r)
  \/ \E r \in Reqs : PostSave(r)
  \/ \E w \in BagToSet(pending) : ApplyProgress(w)
  \/ DeleteBook
  \/ DeleteChildren

Next ==
  \/ Requests
  \/ \E j \in Reqs : ChStatusCompressing(j)
  \/ \E j \in Reqs : CompressFindBook(j)
  \/ \E j \in Reqs : CompressFindChapters(j)
  \/ \E j \in Reqs, i \in 0 .. (NChapters - 1), ok \in BOOLEAN : CompressItemSettle(j, i, ok)
  \/ \E j \in Reqs : CompressWriteStatus(j)
  \/ \E j \in Reqs : ChStatusAssembling(j)
  \/ \E j \in Reqs : AssembleFindBook(j)
  \/ \E j \in Reqs : AssembleFindChapters(j)
  \/ \E j \in Reqs, ok \in BOOLEAN : AssembleLLM(j, ok)
  \/ \E j \in Reqs : AssembleSaveOutput(j)
  \/ \E j \in Reqs : AssembleWriteStatus(j)
  \/ \E j \in Reqs : ChDone(j)
  \/ \E j \in Reqs : ChCatch(j)

Spec == Init /\ [][Next]_vars

NextClaims ==
  \/ Requests
  \/ \E j \in Reqs : ClStatusExtracting(j)
  \/ \E j \in Reqs : ExtractFindChunks(j)
  \/ \E j \in Reqs, i \in 0 .. (NChunks - 1), ok \in BOOLEAN : ExtractItemSettle(j, i, ok)
  \/ \E j \in Reqs : ExtractInsert(j)
  \/ \E j \in Reqs : ExtractWriteStep(j)
  \/ \E j \in Reqs : ClStatusFiltering(j)
  \/ \E j \in Reqs : FilterFind(j)
  \/ \E j \in Reqs, i \in {0}, ok \in BOOLEAN, kept \in SUBSET (0 .. (NChunks - 1)) :
        FilterBatchSettle(j, i, ok, kept)
  \/ \E j \in Reqs : FilterUpdate(j)
  \/ \E j \in Reqs : FilterWriteStep(j)
  \/ \E j \in Reqs : GetFiltered(j)
  \/ \E j \in Reqs : ClStatusClustering(j)
  \/ \E j \in Reqs, ok \in BOOLEAN, k \in 0 .. MaxIdeas : ClusterLLM(j, ok, k)
  \/ \E j \in Reqs, i \in 0 .. (MaxIdeas - 1), ok \in BOOLEAN : ExpandSettle(j, i, ok)
  \/ \E j \in Reqs : IdeasDelete(j)
  \/ \E j \in Reqs : IdeasInsert(j)
  \/ \E j \in Reqs : IdeasWriteStep(j)
  \/ \E j \in Reqs : ClStatusReconstructing(j)
  \/ \E j \in Reqs : ReconFindBook(j)
  \/ \E j \in Reqs : ReconFindIdeas(j)
  \/ \E j \in Reqs, ok \in BOOLEAN : ReconLLM(j, ok)
  \/ \E j \in Reqs : ReconDeleteOutput(j)
  \/ \E j \in Reqs : ReconCreateOutput(j)
  \/ \E j \in Reqs : ReconWriteStatus(j)
  \/ \E j \in Reqs : ClDone(j)
  \/ \E j \in Reqs : ClCatch(j)

SpecClaims == InitClaims /\ [][NextClaims]_vars

\* the claims pipeline up to the clustering call, in runs whose clustering
\* call fails: a run that ends failed can be triggered again, and the retry
\* filters the Claims once more
NextFilter ==
  \/ \E r \in Reqs : PostCheck(r)
  \/ \E r \in Reqs : PostSave(r)
  \/ \E w \in BagToSet(pending) : ApplyProgress(w)
  \/ \E j \in Reqs : ClStatusExtracting(j)
  \/ \E j \in Reqs : ExtractFindChunks(j)
  \/ \E j \in Reqs, i \in 0 .. (NChunks - 1), ok \in BOOLEAN : ExtractItemSettle(j, i, ok)
  \/ \E j \in Reqs : ExtractInsert(j)
  \/ \E j \in Reqs : ExtractWriteStep(j)
  \/ \E j \in Reqs : ClStatusFiltering(j)
  \/ \E j \in Reqs : FilterFind(j)
  \/ \E j \in Reqs, i \in {0}, ok \in BOOLEAN, kept \in SUBSET (0 .. (NChunks - 1)) :
        FilterBatchSettle(j, i, ok, kept)
  \/ \E j \in Reqs : FilterUpdate(j)
  \/ \E j \in Reqs : FilterWriteStep(j)
  \/ \E j \in Reqs : GetFiltered(j)
  \/ \E j \in Reqs : ClStatusClustering(j)
  \/ \E j \in Reqs : ClusterLLM(j, FALSE, 0)
  \/ \E j \in Reqs : ClCatch(j)

SpecFilter == InitClaims /\ [][NextFilter]_vars

\* one trigger of the chapters pipeline, its job, and a poller of the output
First == "r1"

NextGet ==
  \/ PostCheck(First)
  \/ PostSave(First)
  \/ \E w \in BagToSet(pending) : ApplyProgress(w)
  \/ ChStatusCompressing(First)
  \/ CompressFindBook(First)
  \/ CompressFindChapters(First)
  \/ \E i \in 0 .. (NChapters - 1), ok \in BOOLEAN : CompressItemSettle(First, i, ok)
  \/ CompressWriteStatus(First)
  \/ ChStatusAssembling(First)
  \/ AssembleFindBook(First)
  \/ AssembleFindChapters(First)
  \/ \E ok \in BOOLEAN : AssembleLLM(First, ok)
  \/ AssembleSaveOutput(First)
  \/ AssembleWriteStatus(First)
  \/ ChDone(First)
  \/ ChCatch(First)
  \/ GetFindBook
  \/ GetFindOutput

SpecGet == Init /\ [][NextGet]_vars

(***************************************************************************)
(* parallelMap(items, fn, {concurrency, onProgress, continueOnError})      *)
(* A worker is always inside the fn call it awaits, or has returned:       *)
(* between the settling of one call and the start of the next there is no  *)
(* await.  inflight holds the indexes of the fn calls being awaited.       *)
(***************************************************************************)
\* an empty slot of new Array(items.length)
Hole == [kind |-> "hole", index |-> -1]

\* what `await fn(item, index)` leaves for the slot: the value fn returned
\* for that index, or the Error made of what it threw
FnOutcome(i, throws) == [kind |-> IF throws THEN "error" ELSE "value", index |-> i]

\* results[index] = ...: the slot is the index the worker took from the
\* cursor, whatever the number of calls completed so far
SlotOfCompletion(index, completed) == completed

SlotOf(index, completed) == index

\* the statements after the try/catch run unless the catch rethrew
RunsOnOnlyAfterValue(throws, continueOnError) == ~throws

RunsOn(throws, continueOnError) == ~throws \/ continueOnError

\* onProgress?.(completed, items.length)
ProgressCallOfIndex(completed, index, total) == [completed |-> index + 1, total |-> total]

ProgressCall(completed, index, total) == [completed |-> completed, total |-> total]

\* const index = currentIndex++: the cursor after a worker took an index
NextIndexSame(currentIndex) == currentIndex

NextIndex(currentIndex) == currentIndex + 1

\* the call: results = new Array(n), completed = 0, currentIndex = 0, and
\* the workers run up to their first await.  settled and threw record the
\* order in which the fn calls settled and which of them threw.
PMCall(n, concurrency, continueOnError) ==
  LET w == Workers(concurrency, n) IN
  [phase |-> IF w = 0 THEN "resolved" ELSE "running",
   n |-> n, concurrency |-> concurrency, continueOnError |-> continueOnError,
   currentIndex |-> w, inflight |-> 0 .. (w - 1),
   results |-> [i \in 0 .. (n - 1) |-> Hole],
   calls |-> [i \in 0 .. (n - 1) |-> IF i < w THEN 1 ELSE 0],
   completed |-> 0, progress |-> <<>>, settled |-> <<>>, threw |-> {}]

\* fn(items[i], i) settles with a value or throws; the worker stores the
\* outcome, counts it, reports it and takes the next index, or rethrows
PMSettled(p, i, throws) ==
  LET dies == ~RunsOn(throws, p.continueOnError)
      more == ~dies /\ p.currentIndex < p.n
      fly == (p.inflight \ {i}) \cup (IF more THEN {p.currentIndex} ELSE {})
  IN [p EXCEPT
        !.results = IF dies THEN @
                    ELSE [@ EXCEPT ![SlotOf(i, p.completed)] = FnOutcome(i, throws)],
        !.completed = IF dies THEN @ ELSE @ + 1,
        !.progress = IF dies THEN @
                     ELSE Append(@, ProgressCall(p.completed + 1, i, p.n)),
        !.settled = Append(@, i),
        !.threw = IF throws THEN @ \cup {i} ELSE @,
        !.currentIndex = IF more THEN NextIndex(@) ELSE @,
        !.calls = IF more THEN [@ EXCEPT ![p.currentIndex] = @ + 1] ELSE @,
        !.inflight = fly,
        !.phase = IF dies THEN "rejected"
                  ELSE IF fly = {} /\ p.phase = "running" THEN "resolved" ELSE @]

PMSettle(i, throws) ==
  /\ pm.phase \in {"running", "rejected"} /\ i \in pm.inflight
  /\ pm' = PMSettled(pm, i, throws)
  /\ UNCHANGED <<storeVars, variant, req, job, del, get, ck, ex, up>>

InitPM ==
  /\ InitStore("chapters") /\ ck = IdleCk /\ ex = IdleEx /\ up = IdleUp
  /\ \E n \in 0 .. MaxItems, c \in 1 .. MaxConcurrency, coe \in BOOLEAN :
       pm = PMCall(n, c, coe)

NextPM == \E i \in 0 .. (MaxItems - 1), throws \in BOOLEAN : PMSettle(i, throws)

SpecPM == InitPM /\ [][NextPM]_vars

(***************************************************************************)
(* chunkText(text, options)                                                *)
(* A text is its paragraphs (split on blank lines, trimmed, non-empty); a  *)
(* paragraph is the lengths in characters of its sentences and whether     *)
(* isNaturalBreakPoint holds of it.  The call reads one paragraph per      *)
(* step; the text may end after any paragraph.                             *)
(***************************************************************************)
MaxParagraphs == 3      \* longest text, in paragraphs
MaxSentences == 2       \* most sentences of one paragraph
DEFAULT_MIN_TOKENS == 800
DEFAULT_MAX_TOKENS == 1500
CHARS_PER_TOKEN == 4

\* lengths in characters a sentence has: 100, 700 and 1600 tokens
SentenceChars == {400, 2800, 6400}

\* Math.ceil(text.length / 4)
estimateTokens(chars) == (chars + CHARS_PER_TOKEN - 1) \div CHARS_PER_TOKEN

Paragraphs ==
  [sentences : UNION {[1 .. k -> SentenceChars] : k \in 1 .. MaxSentences},
   natural : BOOLEAN]

\* {...DEFAULT_OPTIONS, ...options}: the defaults, and minTokens = maxTokens
ChunkerOptions ==
  {[minTokens |-> DEFAULT_MIN_TOKENS, maxTokens |-> DEFAULT_MAX_TOKENS],
   [minTokens |-> DEFAULT_MAX_TOKENS, maxTokens |-> DEFAULT_MAX_TOKENS]}

RECURSIVE SumChars(_)
SumChars(sentences) ==
  IF sentences = <<>> THEN 0 ELSE Head(sentences) + SumChars(Tail(sentences))

\* the paragraph's length: its sentences, one space between two of them
ParagraphChars(p) == SumChars(p.sentences) + Len(p.sentences) - 1

\* chunks.push({order: chunkOrder++, text, tokenCount})
Push(c, tokenCount) ==
  [c EXCEPT !.chunks = Append(@, [order |-> c.chunkOrder, tokenCount |-> tokenCount]),
            !.chunkOrder = @ + 1]

\* push the accumulated paragraphs and start an empty chunk
Flush(c) == [Push(c, c.currentTokenCount) EXCEPT !.current = 0, !.currentTokenCount = 0]

\* the sentence loop of a paragraph longer than maxTokens; the sentences left
\* at its end become the current chunk
RECURSIVE SentenceLoop(_, _, _, _)
SentenceLoop(c, sentences, held, heldTokens) ==
  IF sentences = <<>>
  THEN IF held > 0 THEN [c EXCEPT !.current = 1, !.currentTokenCount = heldTokens] ELSE c
  ELSE LET t == estimateTokens(Head(sentences))
           full == heldTokens + t > c.opts.maxTokens /\ held > 0
       IN SentenceLoop(IF full THEN Push(c, heldTokens) ELSE c, Tail(sentences),
                       (IF full THEN 0 ELSE held) + 1,
                       (IF full THEN 0 ELSE heldTokens) + t)

\* the flush before a paragraph that would exceed maxTokens: only a chunk
\* of at least minTokens is saved
FlushBefore(c, t) ==
  IF /\ c.currentTokenCount + t > c.opts.maxTokens /\ c.current > 0
     /\ c.currentTokenCount >= c.opts.minTokens
  THEN Flush(c) ELSE c

\* the body of the loop over the paragraphs
ChunkStep(c, p) ==
  LET t == estimateTokens(ParagraphChars(p)) IN
  IF t > c.opts.maxTokens
  THEN SentenceLoop(IF c.current > 0 THEN Flush(c) ELSE c, p.sentences, 0, 0)
  ELSE LET c1 == FlushBefore(c, t)
           c2 == [c1 EXCEPT !.current = @ + 1, !.currentTokenCount = @ + t]
       IN IF /\ c2.currentTokenCount >= c2.opts.minTokens
             /\ c2.currentTokenCount <= c2.opts.maxTokens
             /\ p.natural
          THEN Flush(c2) ELSE c2

\* lastChunk.tokenCount + currentTokenCount <= opts.maxTokens * 1.2
WithinOverflow(tokens, maxTokens) == 5 * tokens <= 6 * maxTokens

\* after the loop: a small rest is merged into the last chunk when the sum
\* stays within the overflow, else it is pushed
ChunkRest(c) ==
  IF c.current = 0 THEN c
  ELSE IF c.currentTokenCount < c.opts.minTokens /\ Len(c.chunks) > 0
  THEN LET last == c.chunks[Len(c.chunks)] IN
       IF WithinOverflow(last.tokenCount + c.currentTokenCount, c.opts.maxTokens)
       THEN [c EXCEPT !.chunks[Len(c.chunks)].tokenCount = @ + c.currentTokenCount,
                      !.current = 0, !.currentTokenCount = 0]
       ELSE Flush(c)
  ELSE Flush(c)

ChunkCall(opts) ==
  [phase |-> "loop", opts |-> opts, read |-> 0, current |-> 0,
   currentTokenCount |-> 0, chunkOrder |-> 0, chunks |-> <<>>]

ChunkParagraph(p) ==
  /\ ck.phase = "loop" /\ ck.read < MaxParagraphs
  /\ ck' = [ChunkStep(ck, p) EXCEPT !.read = @ + 1]
  /\ UNCHANGED <<storeVars, variant, req, job, del, pm, get, ex, up>>

ChunkReturn ==
  /\ ck.phase = "loop"
  /\ ck' = [ChunkRest(ck) EXCEPT !.phase = "done"]
  /\ UNCHANGED <<storeVars, variant, req, job, del, pm, get, ex, up>>

InitChunk ==
  /\ InitStore("claims") /\ pm = IdlePM /\ ex = IdleEx /\ up = IdleUp
  /\ \E opts \in ChunkerOptions : ck = ChunkCall(opts)

NextChunk ==
  \/ \E p \in Paragraphs : ChunkParagraph(p)
  \/ ChunkReturn

SpecChunk == InitChunk /\ [][NextChunk]_vars

\* one filterClaims call of the first job on a store that holds up to
\* MaxClaims Claims of the book, some of them with the same text
MaxClaims == 2

Texts == {0, 1}

ClaimInputs ==
  UNION {{{[bookId |-> Target, run |-> First, chunk |-> i, text |-> t[i],
            label |-> l[i]] : i \in 0 .. (k - 1)} :
            t \in [0 .. (k - 1) -> Texts], l \in [0 .. (k - 1) -> {"none", "filler"}]} :
          k \in 0 .. MaxClaims}

InitCount ==
  /\ variant = "claims"
  /\ books = updateBookStatus([b \in BookIds |-> NewBook], Target, "filtering_claims", 20)
  /\ chapters = {}
  /\ chunks = {[bookId |-> b, order |-> i] : b \in BookIds, i \in 0 .. (NChunks - 1)}
  /\ claims \in ClaimInputs
  /\ ideas = {} /\ outputs = {}
  /\ pending = EmptyBag
  /\ req = [r \in Reqs |-> IF r = First THEN [IdleReq EXCEPT !.pc = "done", !.resp = 200]
                                        ELSE IdleReq]
  /\ job = [r \in Reqs |-> IF r = First THEN [IdleJob EXCEPT !.pc = "f_find"] ELSE IdleJob]
  /\ del = IdleDel /\ get = IdleGet
  /\ pm = IdlePM /\ ck = IdleCk /\ ex = IdleEx /\ up = IdleUp

NextCount ==
  \/ FilterFind(First)
  \/ \E ok \in BOOLEAN, kept \in SUBSET Texts : FilterBatchSettle(First, 0, ok, kept)
  \/ FilterUpdate(First)
  \/ FilterWriteStep(First)
  \/ \E w \in BagToSet(pending) : ApplyProgress(w)

SpecCount == InitCount /\ [][NextCount]_vars

(***************************************************************************)
(* POST /book/upload-stream                                                *)
(***************************************************************************)
\* the Chapters preprocessing found for the Book, order 0 .. n-1
UploadedChapters(b) ==
  {[bookId |-> b, order |-> i, compressed |-> FALSE] : i \in 0 .. (NChapters - 1)}

\* await Book.create({..., status: "uploaded"})
UploadCreateBook ==
  /\ up.pc = "idle"
  /\ books' = [books EXCEPT ![Target] = NewBook]
  /\ up' = [pc |-> "chapters"]
  /\ UNCHANGED <<variant, chapters, chunks, claims, ideas, outputs, pending, req, job, del, pm, get, ck, ex>>

\* await Chapter.insertMany(chapterDocs), then the result event; when the
\* insert throws, the catch sends the error event and the Book stays
UploadInsertChapters(ok) ==
  /\ up.pc = "chapters"
  /\ chapters' = IF ok THEN chapters \cup UploadedChapters(Target) ELSE chapters
  /\ up' = [pc |-> IF ok THEN "complete" ELSE "error"]
  /\ UNCHANGED <<variant, books, chunks, claims, ideas, outputs, pending, req, job, del, pm, get, ck, ex>>

\* the store before the upload of Target; the other book is uploaded
InitUpload ==
  /\ variant = "chapters"
  /\ books = [b \in BookIds |-> IF b = Target THEN Absent ELSE NewBook]
  /\ chapters = UNION {UploadedChapters(b) : b \in BookIds \ {Target}}
  /\ chunks = {} /\ claims = {} /\ ideas = {} /\ outputs = {}
  /\ pending = EmptyBag
  /\ req = [r \in Reqs |-> IdleReq]
  /\ job = [r \in Reqs |-> IdleJob]
  /\ del = IdleDel /\ get = IdleGet
  /\ pm = IdlePM /\ ck = IdleCk /\ ex = IdleEx /\ up = IdleUp

NextUpload ==
  \/ UploadCreateBook
  \/ \E ok \in BOOLEAN : UploadInsertChapters(ok)
  \/ Next

SpecUpload == InitUpload /\ [][NextUpload]_vars

(***************************************************************************)
(* extractChaptersWithTOC and extractChapters                              *)
(***************************************************************************)
MaxEntries == 4
MaxLines == 6
MIN_CONTENT_CHARS == 100
MIN_HEADINGS == 3
MIN_TOC_CHAPTERS == 3

\* the non-empty lines of the text: a line matchChapterHeading gives level 1
\* or 2, one it gives level 3, and lines it does not match
Lines ==
  {[kind |-> "heading", chars |-> 10], [kind |-> "subsection", chars |-> 12],
   [kind |-> "body", chars |-> 40], [kind |-> "body", chars |-> 120]}

\* what a TOC entry of level <= 2 comes to: its title is not found in the
\* text, or it is found with a body of at most or of more than 100 characters
EntryOutcomes == {"failed", "thin", "chapter"}

\* a level-3 line goes into the content as "\n### title\n"
SubsectionPiece(l) == [kind |-> "subsection", chars |-> l.chars + 6]

RECURSIVE SumPieces(_)
SumPieces(content) ==
  IF content = <<>> THEN 0 ELSE Head(content).chars + SumPieces(Tail(content))

\* currentChapter.content.join("\n").trim().length
ContentChars(content) ==
  IF content = <<>> THEN 0
  ELSE LET joined == SumPieces(content) + Len(content) - 1
           lead == IF content[1].kind = "subsection" THEN 1 ELSE 0
           trail == IF content[Len(content)].kind = "subsection" THEN 1 ELSE 0
       IN joined - lead - trail

\* save the current chapter when it has more than 100 characters of content
SaveChapter(e) ==
  IF e.open /\ e.content # <<>> /\ ContentChars(e.content) > MIN_CONTENT_CHARS
  THEN [e EXCEPT !.chapters = @ + 1] ELSE e

\* a line outside any chapter starts the Introduction
AddLine(e, l) ==
  IF e.open THEN [e EXCEPT !.content = Append(@, l)]
  ELSE [e EXCEPT !.open = TRUE, !.content = <<l>>]

\* the body of the loop over the lines
ScanLine(e, l) ==
  IF l.kind = "heading"
  THEN [SaveChapter(e) EXCEPT !.open = TRUE, !.content = <<>>,
                              !.detectedChapters = @ + 1]
  ELSE IF l.kind = "subsection" /\ e.open
  THEN [e EXCEPT !.content = Append(@, SubsectionPiece(l))]
  ELSE AddLine(e, l)

\* !hasDetectedStructure && chapters.length <= 2
IsArtificial(detectedChapters, nChapters) ==
  detectedChapters < MIN_HEADINGS /\ nChapters <= 2

\* after the loop: the last chapter is saved and the method is decided
ScanResult(e) ==
  LET f == SaveChapter(e) IN
  [f EXCEPT !.phase = "done",
            !.hasDetectedStructure = f.detectedChapters >= MIN_HEADINGS,
            !.extractionMethod =
               IF IsArtificial(f.detectedChapters, f.chapters)
               THEN "artificial" ELSE "regex"]

\* chapters.length < 3 || matchRate < 0.5
PoorMatch(nChapters, entries, failedMatches) ==
  nChapters < MIN_TOC_CHAPTERS \/ 2 * (entries - failedMatches) < entries

\* extractChaptersWithTOC(text, toc) with n TOC entries of level <= 2; without
\* a TOC it is extractChapters(text) at once
ExCall(n) ==
  [phase |-> IF n = 0 THEN "scan" ELSE "toc", entries |-> n, entry |-> 0,
   failedMatches |-> 0, tocChapters |-> 0, poor |-> FALSE, read |-> 0,
   open |-> FALSE, content |-> <<>>, chapters |-> 0, detectedChapters |-> 0,
   hasDetectedStructure |-> FALSE, extractionMethod |-> "none"]

TocEntry(outcome) ==
  /\ ex.phase = "toc" /\ ex.entry < ex.entries
  /\ ex' = [ex EXCEPT !.entry = @ + 1,
                      !.failedMatches = IF outcome = "failed" THEN @ + 1 ELSE @,
                      !.tocChapters = IF outcome = "chapter" THEN @ + 1 ELSE @]
  /\ UNCHANGED <<storeVars, variant, req, job, del, pm, get, ck, up>>

TocReturn ==
  /\ ex.phase = "toc" /\ ex.entry = ex.entries
  /\ ex' = IF PoorMatch(ex.tocChapters, ex.entries, ex.failedMatches)
           THEN [ex EXCEPT !.phase = "scan", !.poor = TRUE]
           ELSE [ex EXCEPT !.phase = "done", !.chapters = ex.tocChapters,
                           !.hasDetectedStructure = TRUE,
                           !.extractionMethod = "toc"]
  /\ UNCHANGED <<storeVars, variant, req, job, del, pm, get, ck, up>>

ExtractLine(l) ==
  /\ ex.phase = "scan" /\ ex.read < MaxLines
  /\ ex' = [ScanLine(ex, l) EXCEPT !.read = @ + 1]
  /\ UNCHANGED <<storeVars, variant, req, job, del, pm, get, ck, up>>

ExtractReturn ==
  /\ ex.phase = "scan"
  /\ ex' = ScanResult(ex)
  /\ UNCHANGED <<storeVars, variant, req, job, del, pm, get, ck, up>>

InitExtract ==
  /\ InitStore("chapters") /\ pm = IdlePM /\ ck = IdleCk /\ up = IdleUp
  /\ \E n \in 0 .. MaxEntries : ex = ExCall(n)

NextExtract ==
  \/ \E outcome \in EntryOutcomes : TocEntry(outcome)
  \/ TocReturn
  \/ \E l \in Lines : ExtractLine(l)
  \/ ExtractReturn

SpecExtract == InitExtract /\ [][NextExtract]_vars

(***************************************************************************)
(* Properties                                                              *)
(***************************************************************************)
Book == books[Target]
Running(j) == job[j].pc \notin {"none", "done"}
Terminal(status) == status \in {"completed", "failed"}

\* C1: a trigger is accepted if and only if the status it finds is
\* "uploaded" or "failed"; any other status is answered 400, starts no
\* job and leaves the Book record as it is.
C1_TriggerAcceptedIffUploadedOrFailed ==
  [][\A r \in Reqs :
       (req[r].pc = "idle" /\ req'[r].pc # "idle" /\ Book.exists) =>
         /\ (req'[r].pc = "saving" /\ job'[r].pc = "start")
              <=> Book.status \in {"uploaded", "failed"}
         /\ Book.status \notin {"uploaded", "failed"} =>
              /\ req'[r].pc = "done" /\ req'[r].resp = 400
              /\ job' = job /\ books' = books]_vars

\* the first request was accepted and the second, sent while the job of the
\* first is running, was refused and started nothing
C1_Witness ==
  /\ req["r1"].resp = 200 /\ Running("r1")
  /\ req["r2"].resp = 400 /\ job["r2"].pc = "none"

\* C2: at most one pipeline job of a book is running at any time.
C2_AtMostOneJobRunning ==
  Cardinality({j \in Reqs : Running(j)}) <= 1

\* C3: within one run the progress a poller reads never decreases while
\* the status is not terminal (stated for the run of the first request,
\* before any second request is made).
C3_ProgressNeverDecreases ==
  [][(/\ req["r2"].pc = "idle" /\ req'["r2"].pc = "idle"
      /\ Book.exists /\ books'[Target].exists
      /\ ~Terminal(Book.status) /\ ~Terminal(books'[Target].status))
     => books'[Target].progress >= Book.progress]_vars

\* the place of a status in the order of its pipeline
Rank(status) ==
  CASE status = "uploaded" -> 0
    [] status \in {"extracting_claims", "compressing_chapters"} -> 1
    [] status \in {"filtering_claims", "assembling"} -> 2
    [] status = "clustering_ideas" -> 3
    [] status = "reconstructing" -> 4
    [] status = "completed" -> 5
    [] OTHER -> 6

\* C4: in a run that does not fail the statuses a poller reads follow the
\* pipeline order without going backwards, and whenever the status is
\* "completed" the progress is exactly 100 (stated for the run of the
\* first request, before any second request is made).
C4_StatusOrderAndFinalProgress ==
  [][(/\ req["r2"].pc = "idle" /\ req'["r2"].pc = "idle"
      /\ Book.exists /\ books'[Target].exists
      /\ Book.status # "failed" /\ books'[Target].status # "failed")
     => /\ Rank(books'[Target].status) >= Rank(Book.status)
        /\ books'[Target].status = "completed" => books'[Target].progress = 100]_vars

\* C5: a Book whose status is "completed" or "failed" has
\* processingCompletedAt set, and a Book whose status is not "uploaded"
\* has processingStartedAt set.
C5_TimestampsSet ==
  \A b \in BookIds : books[b].exists =>
    /\ Terminal(books[b].status) => books[b].completedAt
    /\ books[b].status # "uploaded" => books[b].startedAt

\* C6: when a stage throws, the orchestrator's catch sets status "failed",
\* stores the message in error and sets processingCompletedAt, and the job
\* ends there.
C6_CatchMarksFailed ==
  [][\A j \in Reqs :
       (job[j].pc = "catch" /\ job'[j].pc # "catch" /\ Book.exists) =>
         /\ job'[j].pc = "done"
         /\ books'[Target].status = "failed"
         /\ books'[Target].error = job[j].err
         /\ books'[Target].completedAt]_vars

\* C7: when an accepted trigger has saved the Book, processingStartedAt is
\* set, error is cleared and processingCompletedAt is cleared.
C7_TriggerResetsBook ==
  [][\A r \in Reqs :
       (req[r].pc = "saving" /\ req'[r].resp = 200) =>
         /\ books'[Target].startedAt
         /\ books'[Target].error = NoError
         /\ ~books'[Target].completedAt]_vars

\* one step of the background job j
JobStep(j) ==
  \/ ChStatusCompressing(j) \/ CompressFindBook(j) \/ CompressFindChapters(j)
  \/ \E i \in 0 .. (NChapters - 1), ok \in BOOLEAN : CompressItemSettle(j, i, ok)
  \/ CompressWriteStatus(j) \/ ChStatusAssembling(j) \/ AssembleFindBook(j)
  \/ AssembleFindChapters(j) \/ (\E ok \in BOOLEAN : AssembleLLM(j, ok))
  \/ AssembleSaveOutput(j) \/ AssembleWriteStatus(j) \/ ChDone(j) \/ ChCatch(j)

\* C8: once the Book is deleted, no step recreates it or writes to it (it
\* is never marked "failed"), and a job still running is never stuck: it
\* has a step to take until it has ended.
C8_DeletedBookStaysDeleted ==
  [][~Book.exists =>
       /\ books'[Target] = Absent
       /\ \A j \in Reqs : Running(j) => ENABLED JobStep(j)]_vars

\* the Book was deleted while a job was running; the job found it missing
\* and has ended through its catch
C8_Witness ==
  /\ ~Book.exists /\ del.pc = "done"
  /\ job["r1"].pc = "done" /\ job["r1"].err = "Book not found"

\* C9: once DELETE has answered, no Chunk, Chapter, Claim, Idea or
\* FinalOutput of the deleted Book is left, and the records of the other
\* Book are all still there.
C9_CascadeDelete ==
  (del.pc = "done" /\ del.resp = 200) =>
    /\ ChunksOf(Target) = {} /\ ChaptersOf(Target) = {} /\ ClaimsOf(Target) = {}
    /\ IdeasOf(Target) = {} /\ OutputsOf(Target) = {}
    /\ \A b \in BookIds \ {Target} :
         Cardinality(ChaptersOf(b)) + Cardinality(ChunksOf(b)) = NChapters

\* C10: the fn calls that have started and not yet settled never number
\* more than concurrency.
C10_InFlightAtMostConcurrency ==
  pm.phase # "idle" => Cardinality(pm.inflight) <= pm.concurrency

\* after a call has settled, concurrency calls are in flight while items
\* are still waiting
C10_Witness ==
  /\ pm.phase = "running" /\ pm.completed > 0
  /\ Cardinality(pm.inflight) = pm.concurrency
  /\ pm.currentIndex < pm.n

\* C11: when parallelMap resolves, the list has one slot per item and slot i
\* holds the outcome of fn(items[i], i): the value fn returned for index i,
\* or an error record where it threw, whatever the order of completion.
C11_SlotHoldsOutcomeOfItsIndex ==
  pm.phase = "resolved" =>
    /\ DOMAIN pm.results = 0 .. (pm.n - 1)
    /\ \A i \in 0 .. (pm.n - 1) :
         pm.results[i] = [kind |-> IF i \in pm.threw THEN "error" ELSE "value",
                          index |-> i]

\* a call over at least three items resolved although a later item settled
\* before item 0 and some fn threw
C11_Witness ==
  /\ pm.phase = "resolved" /\ pm.n >= 3
  /\ pm.settled[1] # 0 /\ pm.threw # {}

\* C12: with continueOnError true, onProgress is called once after each fn
\* call settles, the k-th call being onProgress(k, n); a resolved call has
\* made exactly n of them.
C12_ProgressCountsSettledItems ==
  pm.continueOnError =>
    /\ Len(pm.progress) = Len(pm.settled)
    /\ \A k \in 1 .. Len(pm.progress) :
         pm.progress[k] = [completed |-> k, total |-> pm.n]
    /\ pm.phase = "resolved" => Len(pm.progress) = pm.n

\* a call with continueOnError true resolved after its items settled in an
\* order other than their index order
C12_Witness ==
  /\ pm.continueOnError /\ pm.phase = "resolved" /\ pm.n >= 2
  /\ \E k \in 1 .. Len(pm.settled) : pm.settled[k] # k - 1

\* C13: with continueOnError true, once every fn call has settled and exactly
\* one of them (index i) threw, the call has resolved, slot i holds an error,
\* every other slot holds the value of its index, and the last onProgress
\* call was onProgress(n, n).
C13_OneErrorIsIsolated ==
  (pm.continueOnError /\ Len(pm.settled) = pm.n /\ Cardinality(pm.threw) = 1) =>
    /\ pm.phase = "resolved"
    /\ \A i \in 0 .. (pm.n - 1) :
         /\ i \in pm.threw => pm.results[i].kind = "error"
         /\ i \notin pm.threw => pm.results[i] = FnOutcome(i, FALSE)
    /\ pm.progress[Len(pm.progress)] = [completed |-> pm.n, total |-> pm.n]

\* every call of a list of at least three items has settled, exactly one of
\* them threw, and it was not the last one to settle
C13_Witness ==
  /\ pm.continueOnError /\ pm.n >= 3 /\ Len(pm.settled) = pm.n
  /\ Cardinality(pm.threw) = 1 /\ pm.settled[pm.n] \notin pm.threw

\* C14: with continueOnError false, once a fn call has thrown no fn call is
\* started for an item that had not been started.
C14_NoStartAfterThrow ==
  [][(~pm.continueOnError /\ pm.phase = "rejected") => pm'.calls = pm.calls]_vars

\* the Ideas a clusterIdeas run that returned n clusters is to leave: one per
\* cluster title
IdeasOfRun(j, n) == {[bookId |-> Target, run |-> j, order |-> i] : i \in 0 .. (n - 1)}

\* C15: when a clusterIdeas run has saved its Ideas, the Book's Ideas are
\* exactly one Idea per cluster of that run, and none of an earlier run.
C15_IdeasAreThoseOfLastRun ==
  [][\A j \in Reqs :
       (job[j].pc = "i_insert" /\ job'[j].pc = "i_step") =>
         {c \in ideas' : c.bookId = Target} = IdeasOfRun(j, job[j].n)]_vars

\* C16: when extractClaims runs for a Book that already has Claims, its
\* insert adds none: the Claims after it are the Claims before it.
C16_RetryInsertsNoClaims ==
  [][\A j \in Reqs :
       (job[j].pc = "e_insert" /\ job'[j].pc = "e_step" /\ ClaimsOf(Target) # {}) =>
         claims' = claims]_vars

\* no request after j has been received
LastRun(j) == \A q \in Reqs : Earlier(j, q) => req[q].pc = "idle"

\* C17: a run that finds no Claim labeled core_insight or supporting_insight
\* after filtering goes to its catch without starting clustering, writes no
\* Idea and no FinalOutput, and once the run and its trigger have ended the
\* Book is failed with the "No valuable claims" error.
C17_NoValuableClaimsFails ==
  [][\A j \in Reqs :
       /\ (job[j].pc = "g_filtered" /\ job'[j] # job[j] /\ getFilteredClaims(Target) = {}) =>
            /\ job'[j].pc = "catch" /\ job'[j].err = NoValuableClaims
            /\ ideas' = ideas /\ outputs' = outputs
       /\ (job[j].pc = "catch" /\ job[j].err = NoValuableClaims) =>
            ideas' = ideas /\ outputs' = outputs
       /\ (/\ job'[j].pc = "done" /\ job'[j].err = NoValuableClaims
           /\ req'[j].pc = "done" /\ LastRun(j)' /\ Book'.exists) =>
            Book'.status = "failed" /\ Book'.error = NoValuableClaims]_vars

\* C18: a fetch of the output answers 404 whenever the Book's status is not
\* completed; the FinalOutput is returned (200) only when it is completed.
C18_OutputOnlyWhenCompleted ==
  [][(get.pc = "output" /\ get'.pc = "done" /\ Book.exists /\ Book.status # "completed")
       => get'.resp = 404]_vars

\* the order indices of a set of records are unique and exactly 0 .. n-1
DenseOrder(records) ==
  /\ \A c, d \in records : c.order = d.order => c = d
  /\ {c.order : c \in records} = 0 .. (Cardinality(records) - 1)

\* C19: for every Book, the order indices of its Chunks, of its Chapters and
\* of its Ideas are each unique and exactly 0 .. n-1, also after a
\* clusterIdeas run in which the expansion of some cluster failed.
C19_OrderIndicesDense ==
  \A b \in BookIds :
    /\ DenseOrder(ChunksOf(b))
    /\ DenseOrder(ChaptersOf(b))
    /\ DenseOrder(IdeasOf(b))

\* C20: no chunk chunkText returns has a tokenCount above 1.2 x maxTokens
\* (options with minTokens <= maxTokens).
C20_ChunkWithinOverflow ==
  (ck.phase = "done" /\ ck.opts.minTokens <= ck.opts.maxTokens) =>
    \A k \in 1 .. Len(ck.chunks) :
      WithinOverflow(ck.chunks[k].tokenCount, ck.opts.maxTokens)

\* C21: every chunk chunkText returns, except possibly the last one, has a
\* tokenCount of at least minTokens.
C21_ChunkAtLeastMin ==
  ck.phase = "done" =>
    \A k \in 1 .. (Len(ck.chunks) - 1) :
      ck.chunks[k].tokenCount >= ck.opts.minTokens

\* C22: when TOC-guided extraction resolves fewer than half of its entries
\* or fewer than 3 chapters, the extraction method returned is "regex", and
\* when fewer than 3 headings were detected it is "artificial" (the second
\* case going before the first, as the fallback chain goes).
C22_FallbackMethod ==
  ex.phase = "done" =>
    /\ ex.detectedChapters < MIN_HEADINGS /\ ex.extractionMethod # "toc"
         => ex.extractionMethod = "artificial"
    /\ ex.poor /\ ex.detectedChapters >= MIN_HEADINGS
         => ex.extractionMethod = "regex"

\* the positions of a job inside a stage function, and the progress band
\* the orchestrator gives the stage
StageBand(pc) ==
  CASE pc \in {"c_book", "c_chapters", "c_map", "c_status"} -> 5 .. 70
    [] pc \in {"a_book", "a_chapters", "a_llm", "a_output", "a_status"} -> 75 .. 95
    [] pc \in {"e_chunks", "e_map", "e_insert", "e_step"} -> 5 .. 20
    [] pc \in {"f_find", "f_map", "f_update", "f_step"} -> 20 .. 40
    [] pc \in {"k_llm", "x_map", "i_delete", "i_insert", "i_step"} -> 40 .. 70
    [] pc \in {"r_book", "r_ideas", "r_llm", "r_delete", "r_create", "r_status"} -> 70 .. 95
    [] OTHER -> {}

\* C23: a step a job takes inside a stage function (compressChapters,
\* assembleBook, extractClaims, filterClaims, clusterIdeas, reconstructBook)
\* never changes the Book's status and never sets a progress outside the
\* band of the stage.
C23_StagesLeaveStatusAlone ==
  [][\A j \in Reqs :
       (StageBand(job[j].pc) # {} /\ job'[j] # job[j] /\ Book.exists) =>
         /\ Book'.status = Book.status
         /\ Book'.progress # Book.progress =>
              Book'.progress \in StageBand(job[j].pc)]_vars

\* C24: filterClaims leaves every Claim that already has a label as it is
\* (label, score and reason), and a run that finds every Claim labeled ends
\* without changing any Claim.
C24_FilterLeavesLabeledClaims ==
  [][\A j \in Reqs :
       (job[j].pc \in {"f_find", "f_map", "f_update", "f_step"} /\ job'[j] # job[j]) =>
         /\ \A c \in claims : c.label # "none" => c \in claims'
         /\ (job[j].pc = "f_find" /\ Unfiltered(Target) = {}) =>
              claims' = claims /\ job'[j].pc = "g_filtered"]_vars

\* a retry has filtered its own Claim and the Claim the first run labeled
\* is still as that run left it
C24_Witness ==
  /\ job["r2"].pc = "f_step"
  /\ \E c, d \in ClaimsOf(Target) :
       /\ c.run = "r1" /\ c.label = "core_insight"
       /\ d.run = "r2" /\ d.label = "filler"

\* C25: whenever the Book is in the store with status "uploaded", all the
\* Chapters preprocessing produced for it are stored, and no job runs
\* against the Book while its upload has not inserted them.
C25_UploadedBookHasChildren ==
  /\ (Book.exists /\ Book.status = "uploaded") =>
        UploadedChapters(Target) \subseteq ChaptersOf(Target)
  /\ \A j \in Reqs : Running(j) => up.pc \notin {"chapters", "error"}

\* C26: once an accepted trigger, its job and every write in flight have
\* ended and the Book was not deleted, the Book's status is "completed" or
\* "failed": the handler's own status write does not leave a non-terminal
\* status behind the job.
C26_EndsTerminal ==
  (/\ \A r \in Reqs : req[r].pc \in {"idle", "done"}
   /\ \A j \in Reqs : ~Running(j)
   /\ \E j \in Reqs : job[j].pc = "done"
   /\ pending = EmptyBag
   /\ Book.exists)
    => Terminal(Book.status)

\* C27: the handler's save of the initial status and progress 0 is never
\* applied after a status or progress write of the job it started: a save
\* made when the job has already written leaves status and progress as the
\* job wrote them.
C27_SaveNotAfterJobWrite ==
  [][\A r \in Reqs :
       (/\ req[r].pc = "saving" /\ req'[r].pc = "done"
        /\ job[r].pc \notin {"none", "start"}
        /\ Book.exists) =>
         Book'.status = Book.status /\ Book'.progress = Book.progress]_vars

\* C28: a job that is running when its Book is deleted stores no Claim,
\* Idea or FinalOutput for the book: once the delete and every job have
\* ended, no child record with the book's id exists.
C28_NoChildAfterDelete ==
  (/\ del.pc = "done" /\ del.resp = 200
   /\ \A j \in Reqs : ~Running(j)
   /\ \A r \in Reqs : req[r].pc \in {"idle", "done"})
    => /\ ClaimsOf(Target) = {} /\ IdeasOf(Target) = {} /\ OutputsOf(Target) = {}
       /\ ChunksOf(Target) = {}

\* C29: the counts filterClaims returns satisfy kept + discarded = the
\* number of Claims that received a label in the run, and kept = the number
\* of those labeled core_insight or supporting_insight, also when two Claims
\* of a batch have the same text.
C29_CountsMatchLabeledClaims ==
  [][\A j \in Reqs :
       (job[j].pc = "f_update" /\ job'[j].pc = "f_step") =>
         LET labeled == {c \in claims' : c.label # "none" /\ c \notin claims}
         IN /\ job'[j].keptCount + job'[j].discardedCount = Cardinality(labeled)
            /\ job'[j].keptCount =
                 Cardinality({c \in labeled : c.label \in KeptLabels})]_vars

\* C30: with continueOnError true, parallelMap calls fn at most once for an
\* index, a resolved call has called fn exactly once for each index 0 .. n-1
\* and all n calls have settled, and a call on an empty list is resolved with
\* an empty list, no fn call and no onProgress call.
C30_EachIndexOnce ==
  (pm.phase # "idle" /\ pm.continueOnError) =>
    /\ \A i \in 0 .. (pm.n - 1) : pm.calls[i] <= 1
    /\ pm.phase = "resolved" =>
         /\ \A i \in 0 .. (pm.n - 1) : pm.calls[i] = 1
         /\ {pm.settled[k] : k \in 1 .. Len(pm.settled)} = 0 .. (pm.n - 1)
         /\ Len(pm.settled) = pm.n /\ pm.inflight = {}
    /\ pm.n = 0 =>
         /\ pm.phase = "resolved" /\ DOMAIN pm.results = {}
         /\ pm.settled = <<>> /\ pm.progress = <<>>

\* a call with fewer workers than items has resolved after each worker took
\* a further index from the cursor and a fn call threw
C30_Witness ==
  /\ pm.continueOnError /\ pm.phase = "resolved"
  /\ pm.concurrency >= 2 /\ pm.n >= 2 * pm.concurrency
  /\ pm.threw # {}

====
